---- MODULE Spec2Model ----
(***************************************************************************)
(* Gamma-ray packet sources of tardis/energy_input/gamma_ray_packet_source *)
(* RadioactivePacketSource (fixed count per isotope and shell) and         *)
(* GammaRayPacketSource (weighted draw from the decay table).              *)
(*                                                                         *)
(* Python floats are modelled by exact rationals [n, d] in lowest terms.   *)
(* Space is one-dimensional: a unit vector is +1 or -1.  Indexes are the   *)
(* 0-based indexes of the source; arrays are functions on 0..N-1.          *)
(* A uniform draw of np.random.random() is a percentage 0..99.             *)
(***************************************************************************)
EXTENDS Integers, Sequences, FiniteSets, TLC

VARIABLES
    source,                     \* which packet source class was constructed
    pc,                         \* position of the running call
    taus,                       \* self.taus
    parents,                    \* self.parents
    average_positron_energies,  \* self.average_positron_energies
    energy_df_rows,             \* self.energy_df_rows, the deposition ledger
    energy_plot_positron_rows,  \* self.energy_plot_positron_rows
    decays_per_isotope,         \* argument of create_packets
    block,                      \* number of (shell, isotope) blocks processed
    packet_index,               \* the running packet counter
    arrays,                     \* locations, directions, ... of create_packets
    drawn,                      \* per slot: what was sampled for that packet
    ledger_before,              \* energy_df_rows when the running call began
    generated,                  \* packets generated since construction
    base_seed,                  \* self.base_seed of the weighted-draw source
    isotope_decay_df,           \* self.isotope_decay_df of the weighted-draw source
    positron_fractions,         \* isotope_positron_fraction returned by the weighted draw
    runs,                       \* calls made from a known state of the global generator
    nus,                        \* one application of create_packet_nus
    sampler                     \* one run of a decay-time rejection sampler

vars == <<source, pc, taus, parents, average_positron_energies, energy_df_rows,
          energy_plot_positron_rows, decays_per_isotope, block, packet_index,
          arrays, drawn, ledger_before, generated, base_seed, isotope_decay_df,
          positron_fractions, runs, nus, sampler>>

-----------------------------------------------------------------------------
(* Bounds *)

MaxPackets == 2

-----------------------------------------------------------------------------
(* Rational arithmetic standing for float arithmetic *)

Abs(x) == IF x < 0 THEN -x ELSE x

RECURSIVE GCD(_, _)
GCD(a, b) == IF b = 0 THEN a ELSE GCD(b, a % b)

Rat(n, d) ==
    LET g == GCD(Abs(n), Abs(d))
        s == IF d < 0 THEN -1 ELSE 1
    IN  [n |-> s * (n \div g), d |-> s * (d \div g)]

FromInt(i) == [n |-> i, d |-> 1]
Zero == FromInt(0)
RMul(a, b) == Rat(a.n * b.n, a.d * b.d)
RDiv(a, b) == Rat(a.n * b.d, a.d * b.n)
RAdd(a, b) == Rat(a.n * b.d + b.n * a.d, a.d * b.d)
RLt(a, b) == a.n * b.d < b.n * a.d
RLe(a, b) == a.n * b.d <= b.n * a.d

-----------------------------------------------------------------------------
(* Program constants *)

POSITRON_ANNIHILATION_LINE == 511
\* 0.25, as a percentage
PARA_TO_ORTHO_RATIO == 25
\* Planck's constant in the model's units
H_CGS_KEV == 2
\* speed of light in the model's units
C_CGS == 100

-----------------------------------------------------------------------------
(* Configuration of the packet sources (constructor arguments) *)

Isotopes == <<"Ni56", "Co56">>
inner_velocities == <<1, 3>>
outer_velocities == <<3, 5>>
times == <<4, 8, 12>>
effective_times == <<6, 10, 14>>
gamma_ray_lines ==
    [Ni56 |-> <<<<158>>, <<1>>>>,
     Co56 |-> <<<<511, 847>>, <<2, 0>>>>]
packet_energy == FromInt(12)
positronium_fraction == 50

At(seq, i) == seq[i + 1]
Last(seq) == seq[Len(seq)]
NumShells == Len(inner_velocities)
NumIsotopes == Len(Isotopes)
NumBlocks == NumShells * NumIsotopes
Shells == 0 .. NumShells - 1
TimeSteps == 0 .. Len(times) - 1

-----------------------------------------------------------------------------
(* Random draws *)

\* np.random.random(): values below, at and above 0.25 and 0.5
UniformDraws == {10, 25, 60}
\* z of create_packet_radii, in 26ths: one half
ZDraws == {13}
ZDen == 26
\* get_random_unit_vector()
UnitVectors == {-1, 1}
\* values of -tau * ln(u) for tau > 0
TimeSupport == {2, 6, 9, 12, 13}

-----------------------------------------------------------------------------
(* External collaborators (tardis.energy_input.util and .samplers) *)

\* get_index(value, array): the index of the time step holding value
RECURSIVE get_index_from(_, _, _)
get_index_from(value, array, i) ==
    IF value > At(array, i + 1) THEN get_index_from(value, array, i + 1) ELSE i

get_index(value, array) ==
    IF value <= At(array, 0) THEN 0
    ELSE IF value > Last(array) THEN -1
    ELSE get_index_from(value, array, 0)

\* doppler_factor_3d(direction, location, time) = 1 - (location / time) . direction / c
doppler_factor_3d(direction, location, time) ==
    Rat(C_CGS * time - direction * location, C_CGS * time)

\* sample_energy(energy, intensity): one of the lines of positive intensity
sample_energy(energy, intensity) ==
    {energy[i] : i \in {j \in DOMAIN energy : intensity[j] > 0}}

\* positronium_continuum(): energies and intensities of the three-photon decay
positronium_continuum == <<<<340>>, <<1>>>>

\* PositroniumSampler().sample_energy(): a sample of the same continuum
PositroniumSampler == sample_energy(positronium_continuum[1], positronium_continuum[2])

-----------------------------------------------------------------------------
(* Methods of RadioactivePacketSource *)

ICbrt(x) == CHOOSE r \in 0 .. 8 : r * r * r <= x /\ x < (r + 1) * (r + 1) * (r + 1)

create_packet_radii(z, inner_velocity, outer_velocity) ==
    ICbrt((z * inner_velocity * inner_velocity * inner_velocity
           + (ZDen - z) * outer_velocity * outer_velocity * outer_velocity) \div ZDen)

\* One iteration of the loop of create_packet_nus: line is sample_energy(energy,
\* intensity), zs the packet's entry of zs, u the value of the second
\* np.random.random() if it is evaluated, cont the positronium sample.
create_packet_nus(line, fraction, zs, u, cont) ==
    IF line = 511 /\ zs < fraction /\ u < 25 THEN cont ELSE line

\* the loop condition with the lower bound accepted
Rejected_half_open(t, decay_time_min, decay_time_max) ==
    t < decay_time_min \/ t >= decay_time_max

\* The loop condition of create_packet_times_uniform_energy
Rejected(t, decay_time_min, decay_time_max) ==
    t <= decay_time_min \/ t >= decay_time_max

\* The values -start_tau * ln(u1) - end_tau * ln(u2) can take
TimeDraws(start_tau, end_tau) ==
    IF start_tau = 0 /\ end_tau = 0 THEN {0} ELSE TimeSupport

\* The values create_packet_times_uniform_energy can return for one packet
create_packet_times_uniform_energy(start_tau, end_tau, decay_time_min, decay_time_max) ==
    {t \in TimeDraws(start_tau, end_tau) : ~Rejected(t, decay_time_min, decay_time_max)}

\* calculate_energy_factors leaving an early packet at its sampled time
calculate_energy_factors_unmoved(start_time, decay_time) ==
    IF decay_time < start_time
    THEN [factor |-> Rat(decay_time, start_time), time |-> decay_time]
    ELSE [factor |-> FromInt(1), time |-> decay_time]

\* calculate_energy_factors with the ratio upside down
calculate_energy_factors_inverted(start_time, decay_time) ==
    IF decay_time < start_time
    THEN [factor |-> Rat(start_time, decay_time), time |-> start_time]
    ELSE [factor |-> FromInt(1), time |-> decay_time]

\* One iteration of the loop of calculate_energy_factors
calculate_energy_factors(start_time, decay_time) ==
    IF decay_time < start_time
    THEN [factor |-> Rat(decay_time, start_time), time |-> start_time]
    ELSE [factor |-> FromInt(1), time |-> decay_time]

\* the frequency as E * h
frequency_times_h(nu_energy) == FromInt(nu_energy * H_CGS_KEV)

\* "equivalent frequencies": nu = E / h
frequency(nu_energy) == Rat(nu_energy, H_CGS_KEV)

\* co-moving to rest frame: division by the Doppler factor
rest_frame(value, doppler_factor) == RDiv(value, doppler_factor)

\* radius at time zero, scaled by a time, along a unit vector
scale_radius(radius, time, unit) == radius * time * unit

RECURSIVE Dot(_, _, _)
Dot(a, b, i) == IF i = 0 THEN 0 ELSE a[i] * b[i] + Dot(a, b, i - 1)

calculate_positron_fraction(positron_energy, isotope_energy, isotope_intensity) ==
    Rat(positron_energy, Dot(isotope_energy, isotope_intensity, Len(isotope_energy)))

-----------------------------------------------------------------------------
(* RadioactivePacketSource.create_packets, one (shell, isotope) block at a time *)

\* The constructor arguments tried: a complete configuration, and ones where
\* an isotope of gamma_ray_lines, or its parent, lacks an entry.
RadioactiveConfigs ==
    {[taus |-> [Ni56 |-> 3, Co56 |-> 5], parents |-> [Co56 |-> "Ni56"],
      average_positron_energies |-> [Ni56 |-> 79, Co56 |-> 1022]],
     [taus |-> [Ni56 |-> 3], parents |-> [Co56 |-> "Ni56"],
      average_positron_energies |-> [Ni56 |-> 79, Co56 |-> 1022]],
     [taus |-> [Ni56 |-> 3, Co56 |-> 5], parents |-> [Co56 |-> "Ni56"],
      average_positron_energies |-> [Ni56 |-> 79]],
     [taus |-> [Ni56 |-> 3, Co56 |-> 5], parents |-> [Co56 |-> "Fe52"],
      average_positron_energies |-> [Ni56 |-> 79, Co56 |-> 1022]]}

RECURSIVE SumTo(_, _)
SumTo(f, n) == IF n < 0 THEN 0 ELSE f[n] + SumTo(f, n - 1)

\* decays_per_isotope.sum().values and decays_per_isotope.sum().sum()
decays_per_shell(dpi) == [s \in Shells |-> SumTo(dpi[s], NumIsotopes - 1)]
number_of_packets(dpi) == SumTo(decays_per_shell(dpi), NumShells - 1)

DecayInputs ==
    {dpi \in [Shells -> [0 .. NumIsotopes - 1 -> 0 .. MaxPackets]] :
        number_of_packets(dpi) <= MaxPackets}

Slots(n) == 0 .. n - 1

\* np.zeros for each array of the collection
ZeroArrays(n) ==
    [locations |-> [j \in Slots(n) |-> 0],
     directions |-> [j \in Slots(n) |-> 0],
     packet_energies_rf |-> [j \in Slots(n) |-> Zero],
     packet_energies_cmf |-> [j \in Slots(n) |-> Zero],
     nus_rf |-> [j \in Slots(n) |-> Zero],
     nus_cmf |-> [j \in Slots(n) |-> Zero],
     statuses |-> [j \in Slots(n) |-> 3],
     shells |-> [j \in Slots(n) |-> 0],
     times |-> [j \in Slots(n) |-> 0]]

ZeroRow == <<0, Zero, 0, 0>>
\* What was sampled for the packet of a slot, kept beside the arrays
Sampled(packet) ==
    [radius |-> packet.radius, unit |-> packet.unit, time |-> packet.initial_time,
     line |-> packet.line, nu_energy |-> packet.nu_energy, isotope |-> packet.isotope,
     direction |-> packet.direction]
NoDraw ==
    [radius |-> 0, unit |-> 0, time |-> 0, line |-> 0, nu_energy |-> 0, isotope |-> "",
     direction |-> 0]

\* The block in turn: its shell, its isotope and its packet count
\* the position of the isotope taken for the shell
shell_number_of_isotope == block % NumIsotopes
shell_number == block \div NumIsotopes
isotope_name == Isotopes[(block % NumIsotopes) + 1]
isotope_packet_count == decays_per_isotope[shell_number][block % NumIsotopes]

\* The lookups of the block's head fail (KeyError)
KeyError ==
    \/ isotope_name \notin DOMAIN average_positron_energies
    \/ isotope_name \notin DOMAIN taus
    \/ /\ isotope_name \in DOMAIN parents
       /\ parents[isotope_name] \notin DOMAIN taus

tau_start == taus[isotope_name]
tau_end == IF isotope_name \in DOMAIN parents THEN taus[parents[isotope_name]] ELSE 0

isotope_positron_fraction ==
    calculate_positron_fraction(average_positron_energies[isotope_name],
                                gamma_ray_lines[isotope_name][1],
                                gamma_ray_lines[isotope_name][2])

\* The draws of one packet that do not depend on the state: the radius, the
\* travel direction, the unit vector of the placement, the line and the energy
\* create_packet_nus makes of it
Samples ==
    [s \in Shells |->
        [k \in 1 .. NumIsotopes |->
            {[radius |-> create_packet_radii(z, At(inner_velocities, s),
                                             At(outer_velocities, s)),
              direction |-> direction,
              unit |-> unit,
              line |-> line,
              nu_energy |-> create_packet_nus(line, positronium_fraction, zs, u, cont)] :
                z \in ZDraws, direction \in UnitVectors, unit \in UnitVectors,
                line \in sample_energy(gamma_ray_lines[Isotopes[k]][1],
                                       gamma_ray_lines[Isotopes[k]][2]),
                zs \in UniformDraws, u \in UniformDraws,
                cont \in sample_energy(positronium_continuum[1],
                                       positronium_continuum[2])}]]

\* What the block computes for one packet from its draws
RadioactivePacket(shell, isotope, sample, initial_time) ==
    LET time_index == get_index(initial_time, times)
        location == scale_radius(sample.radius, At(effective_times, time_index),
                                 sample.unit)
        nu_cmf == frequency(sample.nu_energy)
        scaled == calculate_energy_factors(At(times, 0), initial_time)
        energy_cmf == RMul(packet_energy, scaled.factor)
        doppler_factor == doppler_factor_3d(sample.direction, location, scaled.time)
    IN  [location |-> location,
         direction |-> sample.direction,
         packet_energy_rf |-> rest_frame(energy_cmf, doppler_factor),
         packet_energy_cmf |-> energy_cmf,
         nu_rf |-> rest_frame(nu_cmf, doppler_factor),
         nu_cmf |-> nu_cmf,
         shell |-> shell,
         time |-> scaled.time,
         time_index |-> time_index,
         radius |-> sample.radius,
         unit |-> sample.unit,
         initial_time |-> initial_time,
         line |-> sample.line,
         nu_energy |-> sample.nu_energy,
         isotope |-> isotope]

\* Every outcome of the block's sampling for one packet
RadioactivePackets ==
    {RadioactivePacket(shell_number, isotope_name, sample, initial_time) :
        sample \in Samples[shell_number][(block % NumIsotopes) + 1],
        initial_time \in create_packet_times_uniform_energy(
                             tau_start, tau_end, 0, Last(times))}

\* The loop writing energy_plot_positron_rows
PlotRowIndex(first, i) == i

PlotRows(rows, first, initial, count, energy) ==
    [j \in DOMAIN rows |->
        IF \E i \in Slots(count) : PlotRowIndex(first, i) = j
        THEN LET i == CHOOSE k \in Slots(count) : PlotRowIndex(first, k) = j
             IN  <<first + i, energy, initial[i].radius, initial[i].time>>
        ELSE rows[j]]

\* the deposit as one fancy-indexed +=, which adds once per distinct time step
DepositOnce(row, initial, i, energy) ==
    [k \in DOMAIN row |->
        IF \E j \in 0 .. i : initial[j].time_index = k
        THEN RAdd(row[k], energy) ELSE row[k]]

\* "deposit positron energy": one increment per entry of initial_time_indexes
RECURSIVE Deposit(_, _, _, _)
Deposit(row, initial, i, energy) ==
    IF i < 0 THEN row
    ELSE LET r == Deposit(row, initial, i - 1, energy)
             k == initial[i].time_index
         IN  [r EXCEPT ![k] = RAdd(r[k], energy)]

\* the slice written at the block's own indexes [0, count)
Collect_local(array, first, count, initial, field) ==
    [j \in DOMAIN array |-> IF j < count THEN initial[j][field] ELSE array[j]]

\* "collect packet properties": the slice [first, first + count) of one array
Collect(array, first, count, initial, field) ==
    [j \in DOMAIN array |->
        IF first <= j /\ j < first + count THEN initial[j - first][field] ELSE array[j]]

Call(dpi) ==
    /\ source = "radioactive"
    /\ pc # "running"
    /\ generated + number_of_packets(dpi) <= MaxPackets
    /\ pc' = "running"
    /\ decays_per_isotope' = dpi
    /\ arrays' = ZeroArrays(number_of_packets(dpi))
    /\ drawn' = [j \in Slots(number_of_packets(dpi)) |-> NoDraw]
    /\ energy_plot_positron_rows' = [j \in Slots(number_of_packets(dpi)) |-> ZeroRow]
    /\ packet_index' = 0
    /\ block' = 0
    /\ ledger_before' = energy_df_rows
    /\ UNCHANGED <<source, taus, parents, average_positron_energies, energy_df_rows,
                   generated, base_seed,
                   isotope_decay_df, positron_fractions, runs, nus, sampler>>

Raise ==
    /\ source = "radioactive"
    /\ pc = "running"
    /\ block < NumBlocks
    /\ KeyError
    /\ pc' = "failed"
    /\ UNCHANGED <<source, taus, parents, average_positron_energies, energy_df_rows,
                   energy_plot_positron_rows, decays_per_isotope, block, packet_index,
                   arrays, drawn, ledger_before, generated, base_seed,
                   isotope_decay_df, positron_fractions, runs, nus, sampler>>

Block ==
    /\ source = "radioactive"
    /\ pc = "running"
    /\ block < NumBlocks
    /\ ~KeyError
    /\ \E initial \in [Slots(isotope_packet_count) -> RadioactivePackets] :
          LET count == isotope_packet_count
              first == packet_index
              energy == RMul(isotope_positron_fraction, packet_energy)
          IN  /\ energy_plot_positron_rows' =
                    PlotRows(energy_plot_positron_rows, first, initial, count, energy)
              /\ packet_index' = first + count
              /\ energy_df_rows' =
                    [energy_df_rows EXCEPT ![shell_number] =
                        Deposit(@, initial, count - 1, energy)]
              /\ arrays' =
                    [locations |-> Collect(arrays.locations, first, count, initial, "location"),
                     directions |-> Collect(arrays.directions, first, count, initial, "direction"),
                     packet_energies_rf |->
                        Collect(arrays.packet_energies_rf, first, count, initial, "packet_energy_rf"),
                     packet_energies_cmf |->
                        Collect(arrays.packet_energies_cmf, first, count, initial, "packet_energy_cmf"),
                     nus_rf |-> Collect(arrays.nus_rf, first, count, initial, "nu_rf"),
                     nus_cmf |-> Collect(arrays.nus_cmf, first, count, initial, "nu_cmf"),
                     statuses |-> arrays.statuses,
                     shells |-> Collect(arrays.shells, first, count, initial, "shell"),
                     times |-> Collect(arrays.times, first, count, initial, "time")]
              /\ drawn' =
                    [j \in DOMAIN drawn |->
                        IF first <= j /\ j < first + count
                        THEN Sampled(initial[j - first])
                        ELSE drawn[j]]
              /\ generated' = generated + count
    /\ block' = block + 1
    /\ UNCHANGED <<source, pc, taus, parents, average_positron_energies,
                   decays_per_isotope, ledger_before, base_seed,
                   isotope_decay_df, positron_fractions, runs, nus, sampler>>

Return ==
    /\ source = "radioactive"
    /\ pc = "running"
    /\ block = NumBlocks
    /\ pc' = "returned"
    /\ UNCHANGED <<source, taus, parents, average_positron_energies, energy_df_rows,
                   energy_plot_positron_rows, decays_per_isotope, block, packet_index,
                   arrays, drawn, ledger_before, generated, base_seed,
                   isotope_decay_df, positron_fractions, runs, nus, sampler>>

-----------------------------------------------------------------------------
(* GammaRayPacketSource *)

\* The decay table passed to create_packets: one row per isotope, shell, time
\* step and radiation channel
DecayTable ==
    <<[isotope |-> "Ni56", shell_number |-> 0, time_index |-> 0, radiation |-> "g",
       radiation_energy_keV |-> 158, decay_energy_erg |-> 3],
      [isotope |-> "Co56", shell_number |-> 0, time_index |-> 1, radiation |-> "g",
       radiation_energy_keV |-> 511, decay_energy_erg |-> 1],
      [isotope |-> "Co56", shell_number |-> 0, time_index |-> 1, radiation |-> "bp",
       radiation_energy_keV |-> 511, decay_energy_erg |-> 5],
      [isotope |-> "Co56", shell_number |-> 1, time_index |-> 2, radiation |-> "g",
       radiation_energy_keV |-> 511, decay_energy_erg |-> 2],
      [isotope |-> "Co56", shell_number |-> 1, time_index |-> 1, radiation |-> "g",
       radiation_energy_keV |-> 847, decay_energy_erg |-> 2],
      [isotope |-> "Ni56", shell_number |-> 1, time_index |-> 0, radiation |-> "g",
       radiation_energy_keV |-> 158, decay_energy_erg |-> 0]>>

\* decays_per_isotope[decays_per_isotope["radiation"] == "g"]
sampled_packets_df_gamma == SelectSeq(DecayTable, LAMBDA row : row.radiation = "g")

\* np.random.RandomState(seed): the stream of a seeded generator, here the
\* linear congruential generator x -> 5x + 3 mod 16 read in eighths
SeedSpace == 16
NextRandom(x) == (5 * x + 3) % SeedSpace

RECURSIVE RandomStream(_, _)
RandomStream(seed, i) == IF i = 0 THEN seed ELSE NextRandom(RandomStream(seed, i - 1))

\* The row holding point u of the cumulated weights
RECURSIVE WeightedRow(_, _, _)
WeightedRow(rows, u, i) ==
    IF u < rows[i].decay_energy_erg THEN rows[i]
    ELSE WeightedRow(rows, u - rows[i].decay_energy_erg, i + 1)

RECURSIVE TotalWeight(_, _)
TotalWeight(rows, i) ==
    IF i = 0 THEN 0 ELSE rows[i].decay_energy_erg + TotalWeight(rows, i - 1)

\* the rows sampled by a generator shared between the calls
sample_shared_stream(rows, n, seed) ==
    [i \in Slots(n) |->
        WeightedRow(rows,
                    (RandomStream(seed, i + n * Len(runs))
                        * TotalWeight(rows, Len(rows))) \div SeedSpace,
                    1)]

\* DataFrame.sample(n, weights="decay_energy_erg", replace=True, random_state=...)
sample(rows, n, seed) ==
    [i \in Slots(n) |->
        WeightedRow(rows,
                    (RandomStream(seed, i) * TotalWeight(rows, Len(rows))) \div SeedSpace,
                    1)]

\* create_packet_nus forming positronium on formation <= fraction
gamma_create_packet_nus_le(line, fraction, formation, u, cont) ==
    IF formation <= fraction /\ line = POSITRON_ANNIHILATION_LINE
    THEN IF u > PARA_TO_ORTHO_RATIO THEN cont ELSE POSITRON_ANNIHILATION_LINE
    ELSE line

\* One entry of the arrays of GammaRayPacketSource.create_packet_nus
gamma_create_packet_nus(line, fraction, formation, u, cont) ==
    LET positronium_formation == formation < fraction
        annihilation_line == line = POSITRON_ANNIHILATION_LINE
        three_photon_decay == u > PARA_TO_ORTHO_RATIO
    IN  IF positronium_formation /\ annihilation_line /\ three_photon_decay THEN cont
        ELSE IF positronium_formation /\ annihilation_line /\ ~three_photon_decay
             THEN POSITRON_ANNIHILATION_LINE
        ELSE line

\* The isotope_decay_df tables tried, one row per isotope, shell and radiation
\* channel: a positron channel for Co56 only in shell 0; the same with other
\* rows in shell 1; and Co56 with a positron channel but no gamma channel in
\* shell 0
IsotopeDecayTables ==
    {<<[isotope |-> "Ni56", shell_number |-> 0, radiation |-> "g", energy_per_channel_keV |-> 8],
       [isotope |-> "Co56", shell_number |-> 0, radiation |-> "g", energy_per_channel_keV |-> 6],
       [isotope |-> "Co56", shell_number |-> 0, radiation |-> "g", energy_per_channel_keV |-> 4],
       [isotope |-> "Co56", shell_number |-> 0, radiation |-> "bp", energy_per_channel_keV |-> 5],
       [isotope |-> "Ni56", shell_number |-> 1, radiation |-> "bp", energy_per_channel_keV |-> 7],
       [isotope |-> "Co56", shell_number |-> 1, radiation |-> "g", energy_per_channel_keV |-> 6]>>,
     <<[isotope |-> "Ni56", shell_number |-> 0, radiation |-> "g", energy_per_channel_keV |-> 8],
       [isotope |-> "Co56", shell_number |-> 0, radiation |-> "g", energy_per_channel_keV |-> 6],
       [isotope |-> "Co56", shell_number |-> 0, radiation |-> "g", energy_per_channel_keV |-> 4],
       [isotope |-> "Co56", shell_number |-> 0, radiation |-> "bp", energy_per_channel_keV |-> 5],
       [isotope |-> "Co56", shell_number |-> 1, radiation |-> "bp", energy_per_channel_keV |-> 9],
       [isotope |-> "Ni56", shell_number |-> 1, radiation |-> "g", energy_per_channel_keV |-> 3]>>,
     <<[isotope |-> "Ni56", shell_number |-> 0, radiation |-> "g", energy_per_channel_keV |-> 8],
       [isotope |-> "Ni56", shell_number |-> 0, radiation |-> "bp", energy_per_channel_keV |-> 2],
       [isotope |-> "Ni56", shell_number |-> 0, radiation |-> "bp", energy_per_channel_keV |-> 2],
       [isotope |-> "Co56", shell_number |-> 0, radiation |-> "bp", energy_per_channel_keV |-> 5],
       [isotope |-> "Co56", shell_number |-> 1, radiation |-> "g", energy_per_channel_keV |-> 6]>>}

\* the table unfiltered
shell_number_any(df) == df

\* isotope_decay_df[index.get_level_values("shell_number") == 0]
shell_number_0(df) == SelectSeq(df, LAMBDA row : row.shell_number = 0)

gamma_decay_df(df) == SelectSeq(shell_number_0(df), LAMBDA row : row.radiation = "g")
positrons_decay_df(df) == SelectSeq(shell_number_0(df), LAMBDA row : row.radiation = "bp")

RECURSIVE SumOfIsotope(_, _, _)
SumOfIsotope(rows, isotope, i) ==
    IF i = 0 THEN 0
    ELSE (IF rows[i].isotope = isotope THEN rows[i].energy_per_channel_keV ELSE 0)
         + SumOfIsotope(rows, isotope, i - 1)

\* rows.groupby("isotope")["energy_per_channel_keV"].sum(): a series indexed by
\* the isotopes that have a row
groupby_sum(rows) ==
    [isotope \in {rows[i].isotope : i \in DOMAIN rows} |->
        SumOfIsotope(rows, isotope, Len(rows))]

\* gamma_energy_per_isotope[isotope] fails (KeyError) for a packet
PositronKeyError(df, isotopes) ==
    \E i \in DOMAIN isotopes :
        /\ isotopes[i] \in DOMAIN groupby_sum(positrons_decay_df(df))
        /\ isotopes[i] \notin DOMAIN groupby_sum(gamma_decay_df(df))

\* GammaRayPacketSource.calculate_positron_fraction
gamma_calculate_positron_fraction(df, isotopes, number) ==
    LET positron_energy_per_isotope == groupby_sum(positrons_decay_df(df))
        gamma_energy_per_isotope == groupby_sum(gamma_decay_df(df))
    IN  [i \in Slots(number) |->
            IF isotopes[i] \in DOMAIN positron_energy_per_isotope
            THEN Rat(positron_energy_per_isotope[isotopes[i]],
                     gamma_energy_per_isotope[isotopes[i]])
            ELSE Zero]

\* What create_packets computes for the packet drawn as row from its draws
GammaPacket(row, z, unit, direction, nu_energy) ==
    LET shell == row.shell_number
        radius == create_packet_radii(z, At(inner_velocities, shell),
                                      At(outer_velocities, shell))
        effective_decay_time == At(times, row.time_index)
        location == scale_radius(radius, effective_decay_time, unit)
        nu_cmf == frequency(nu_energy)
        doppler_factor == doppler_factor_3d(direction, location, effective_decay_time)
    IN  [location |-> location,
         direction |-> direction,
         packet_energy_rf |-> rest_frame(packet_energy, doppler_factor),
         packet_energy_cmf |-> packet_energy,
         nu_rf |-> rest_frame(nu_cmf, doppler_factor),
         nu_cmf |-> nu_cmf,
         shell |-> shell,
         time |-> effective_decay_time,
         time_index |-> row.time_index,
         radius |-> radius,
         unit |-> unit,
         initial_time |-> effective_decay_time,
         line |-> row.radiation_energy_keV,
         nu_energy |-> nu_energy,
         isotope |-> row.isotope]

\* Every outcome of the sampling for the packet drawn as row
GammaPackets(row) ==
    {GammaPacket(row, z, unit, direction,
                 gamma_create_packet_nus(row.radiation_energy_keV, positronium_fraction,
                                         formation, u, cont)) :
        z \in ZDraws, unit \in UnitVectors, direction \in UnitVectors,
        formation \in UniformDraws, u \in UniformDraws, cont \in PositroniumSampler}

\* Every outcome of the sampling for the first n sampled rows, slot by slot
RECURSIVE GammaPacketArrays(_, _)
GammaPacketArrays(sampled_packets_df, n) ==
    IF n = 0 THEN {<<>>}
    ELSE {[j \in Slots(n) |-> IF j = n - 1 THEN p ELSE before[j]] :
            before \in GammaPacketArrays(sampled_packets_df, n - 1),
            p \in GammaPackets(sampled_packets_df[n - 1])}

Column(packets, field) == [j \in DOMAIN packets |-> packets[j][field]]

\* the isotope level of the sampled rows
IsotopesOf(sampled_packets_df) ==
    [j \in DOMAIN sampled_packets_df |-> sampled_packets_df[j].isotope]

\* create_packets fails in calculate_positron_fraction, the arrays still zero
GammaRaise(n) ==
    /\ source = "gamma"
    /\ PositronKeyError(isotope_decay_df,
                        IsotopesOf(sample(sampled_packets_df_gamma, n, base_seed)))
    /\ pc' = "failed"
    /\ arrays' = ZeroArrays(n) @@ [time_index |-> [j \in Slots(n) |-> 0]]
    /\ drawn' = [j \in Slots(n) |-> NoDraw]
    /\ UNCHANGED <<source, taus, parents, average_positron_energies, energy_df_rows,
                   energy_plot_positron_rows, decays_per_isotope, block, packet_index,
                   ledger_before, generated, base_seed, isotope_decay_df,
                   positron_fractions, runs, nus, sampler>>

GammaCall(n) ==
    /\ source = "gamma"
    /\ ~PositronKeyError(isotope_decay_df,
                         IsotopesOf(sample(sampled_packets_df_gamma, n, base_seed)))
    /\ positron_fractions' =
          gamma_calculate_positron_fraction(
              isotope_decay_df,
              IsotopesOf(sample(sampled_packets_df_gamma, n, base_seed)), n)
    /\ LET sampled_packets_df == sample(sampled_packets_df_gamma, n, base_seed)
       IN  \E packets \in GammaPacketArrays(sampled_packets_df, n) :
              /\ arrays' =
                    [locations |-> Column(packets, "location"),
                     directions |-> Column(packets, "direction"),
                     packet_energies_rf |-> Column(packets, "packet_energy_rf"),
                     packet_energies_cmf |-> Column(packets, "packet_energy_cmf"),
                     nus_rf |-> Column(packets, "nu_rf"),
                     nus_cmf |-> Column(packets, "nu_cmf"),
                     statuses |-> [j \in Slots(n) |-> 3],
                     shells |-> Column(packets, "shell"),
                     times |-> Column(packets, "time"),
                     time_index |-> Column(packets, "time_index")]
              /\ drawn' = [j \in Slots(n) |-> Sampled(packets[j])]
    /\ pc' = "returned"
    /\ UNCHANGED <<source, taus, parents, average_positron_energies, energy_df_rows,
                   energy_plot_positron_rows, decays_per_isotope, block, packet_index,
                   ledger_before, generated, base_seed, isotope_decay_df, runs, nus,
                   sampler>>

-----------------------------------------------------------------------------
(* The packet sources after construction *)

Constructed ==
    /\ pc = "idle"
    /\ energy_df_rows = [s \in Shells |-> [k \in TimeSteps |-> Zero]]
    /\ energy_plot_positron_rows = <<>>
    /\ decays_per_isotope = [s \in Shells |-> [k \in 0 .. NumIsotopes - 1 |-> 0]]
    /\ block = NumBlocks
    /\ packet_index = 0
    /\ arrays = ZeroArrays(0)
    /\ drawn = <<>>
    /\ ledger_before = energy_df_rows
    /\ generated = 0
    /\ positron_fractions = <<>>
    /\ runs = <<>>

InitRadioactive ==
    /\ source = "radioactive"
    /\ \E c \in RadioactiveConfigs :
          /\ taus = c.taus
          /\ parents = c.parents
          /\ average_positron_energies = c.average_positron_energies
    /\ base_seed = 0
    /\ isotope_decay_df = <<>>
    /\ Constructed

InitGamma ==
    /\ source = "gamma"
    /\ taus = [Ni56 |-> 3, Co56 |-> 5]
    /\ parents = [Co56 |-> "Ni56"]
    /\ average_positron_energies = <<>>
    /\ base_seed \in 0 .. SeedSpace - 1
    /\ isotope_decay_df \in IsotopeDecayTables
    /\ Constructed

Init ==
    /\ InitRadioactive \/ InitGamma
    /\ nus = <<>>
    /\ sampler = <<>>

Next ==
    \/ \E dpi \in DecayInputs : Call(dpi)
    \/ Raise
    \/ Block
    \/ Return
    \/ \E n \in 0 .. MaxPackets : GammaCall(n)
    \/ \E n \in 0 .. MaxPackets : GammaRaise(n)

Spec == Init /\ [][Next]_vars

-----------------------------------------------------------------------------
(* create_packet_nus of either source applied to one packet *)

NuLines == {158, 511, 847}
NuFractions == {0, 50, 100}
NuDraws == {0, 10, 25, 60, 99}
NuContinuum == {170, 340}

InitNus ==
    /\ source = "create_packet_nus"
    /\ taus = [Ni56 |-> 3, Co56 |-> 5]
    /\ parents = [Co56 |-> "Ni56"]
    /\ average_positron_energies = <<>>
    /\ base_seed = 0
    /\ isotope_decay_df = <<>>
    /\ Constructed
    /\ nus = [strategy |-> "none", line |-> 0, fraction |-> 0, formation |-> 0,
              u |-> 0, cont |-> 0, energy |-> 0]
    /\ sampler = <<>>

RadioactiveNus ==
    \E line \in NuLines, fraction \in NuFractions, zs \in NuDraws, u \in NuDraws,
       cont \in NuContinuum :
        /\ nus' = [strategy |-> "radioactive", line |-> line, fraction |-> fraction,
                   formation |-> zs, u |-> u, cont |-> cont,
                   energy |-> create_packet_nus(line, fraction, zs, u, cont)]
        /\ UNCHANGED <<source, pc, taus, parents, average_positron_energies,
                       energy_df_rows, energy_plot_positron_rows, decays_per_isotope,
                       block, packet_index, arrays, drawn, ledger_before, generated,
                       base_seed,
                   isotope_decay_df, positron_fractions, runs, sampler>>

GammaNus ==
    \E line \in NuLines, fraction \in NuFractions, formation \in NuDraws, u \in NuDraws,
       cont \in NuContinuum :
        /\ nus' = [strategy |-> "gamma", line |-> line, fraction |-> fraction,
                   formation |-> formation, u |-> u, cont |-> cont,
                   energy |-> gamma_create_packet_nus(line, fraction, formation, u, cont)]
        /\ UNCHANGED <<source, pc, taus, parents, average_positron_energies,
                       energy_df_rows, energy_plot_positron_rows, decays_per_isotope,
                       block, packet_index, arrays, drawn, ledger_before, generated,
                       base_seed,
                   isotope_decay_df, positron_fractions, runs, sampler>>

NextNus == RadioactiveNus \/ GammaNus

SpecNus == InitNus /\ [][NextNus]_vars

-----------------------------------------------------------------------------
(* The decay-time rejection samplers, one loop iteration at a time; tick is  *)
(* the parity of the number of iterations made                              *)

SamplerCounts == {0, 1, 2}
SamplerTaus == {[Ni56 |-> 3, Co56 |-> 5], [Ni56 |-> 0, Co56 |-> 5]}
SamplerGrids ==
    {[times |-> times, effective_times |-> effective_times],
     [times |-> times, effective_times |-> <<6, 10, 12>>],
     [times |-> <<4, 4, 12>>, effective_times |-> effective_times]}
\* (decay_time_min, decay_time_max) of the fixed-count sampler: the defaults,
\* those of create_packets, and an inner interval
SamplerBounds == {<<0, 0>>, <<0, 12>>, <<4, 8>>}

InitTimes ==
    /\ source = "create_packet_times_uniform_energy"
    /\ taus \in SamplerTaus
    /\ parents = [Co56 |-> "Ni56"]
    /\ average_positron_energies = <<>>
    /\ base_seed = 0
    /\ isotope_decay_df = <<>>
    /\ Constructed
    /\ nus = <<>>
    /\ \E n \in SamplerCounts :
          \/ \E start_tau \in {0, 3}, end_tau \in {0, 5}, bounds \in SamplerBounds :
                sampler = [strategy |-> "radioactive", pc |-> "loop", i |-> 0, tick |-> 0,
                           no_of_packets |-> n,
                           \* np.ones(no_of_packets) * decay_time_min
                           decay_times |-> [j \in Slots(n) |-> bounds[1]],
                           start_tau |-> start_tau, end_tau |-> end_tau,
                           decay_time_min |-> bounds[1], decay_time_max |-> bounds[2],
                           isotopes |-> <<>>, decay_time |-> <<>>,
                           times |-> times, effective_times |-> effective_times]
          \/ \E isotopes \in [Slots(n) -> {"Ni56", "Co56"}],
                decay_time \in [Slots(n) -> TimeSteps], grid \in SamplerGrids :
                sampler = [strategy |-> "gamma", pc |-> "loop", i |-> 0, tick |-> 0,
                           no_of_packets |-> n,
                           \* np.zeros(len(no_of_packets))
                           decay_times |-> [j \in Slots(n) |-> 0],
                           start_tau |-> 0, end_tau |-> 0,
                           decay_time_min |-> 0, decay_time_max |-> 0,
                           isotopes |-> isotopes, decay_time |-> decay_time,
                           times |-> grid.times,
                           effective_times |-> grid.effective_times]

\* decay_time_min and decay_time_max of packet i in the bucketed sampler
bucket_min(i) == At(sampler.times, sampler.decay_time[i])
bucket_max(i) ==
    IF bucket_min(i) = Last(sampler.times) THEN Last(sampler.effective_times)
    ELSE At(sampler.times, sampler.decay_time[i] + 1)

\* The while loop of RadioactivePacketSource.create_packet_times_uniform_energy
RadioactiveDrawOf(t) ==
    /\ sampler.strategy = "radioactive"
    /\ sampler.pc = "loop"
    /\ sampler.i < sampler.no_of_packets
    /\ Rejected(sampler.decay_times[sampler.i], sampler.decay_time_min,
                sampler.decay_time_max)
    /\ t \in TimeDraws(sampler.start_tau, sampler.end_tau)
    /\ sampler' = [sampler EXCEPT !.decay_times[sampler.i] = t, !.tick = 1 - @]
    /\ UNCHANGED <<source, pc, taus, parents, average_positron_energies,
                   energy_df_rows, energy_plot_positron_rows, decays_per_isotope,
                   block, packet_index, arrays, drawn, ledger_before, generated,
                   base_seed,
                   isotope_decay_df, positron_fractions, runs, nus>>

RadioactiveDraw == \E t \in TimeSupport \cup {0} : RadioactiveDrawOf(t)

RadioactiveAccept ==
    \E t \in TimeSupport \cup {0} :
        /\ ~Rejected(t, sampler.decay_time_min, sampler.decay_time_max)
        /\ RadioactiveDrawOf(t)

\* The while loop of GammaRayPacketSource.create_packet_times_uniform_energy
GammaDrawOf(t) ==
    /\ sampler.strategy = "gamma"
    /\ sampler.pc = "loop"
    /\ sampler.i < sampler.no_of_packets
    /\ Rejected(sampler.decay_times[sampler.i], bucket_min(sampler.i),
                bucket_max(sampler.i))
    /\ t \in TimeDraws(taus[sampler.isotopes[sampler.i]], 0)
    /\ sampler' = [sampler EXCEPT !.decay_times[sampler.i] = t, !.tick = 1 - @]
    /\ UNCHANGED <<source, pc, taus, parents, average_positron_energies,
                   energy_df_rows, energy_plot_positron_rows, decays_per_isotope,
                   block, packet_index, arrays, drawn, ledger_before, generated,
                   base_seed,
                   isotope_decay_df, positron_fractions, runs, nus>>

GammaDraw == \E t \in TimeSupport \cup {0} : GammaDrawOf(t)

GammaAccept ==
    \E t \in TimeSupport \cup {0} :
        /\ sampler.strategy = "gamma"
        /\ sampler.i < sampler.no_of_packets
        /\ ~Rejected(t, bucket_min(sampler.i), bucket_max(sampler.i))
        /\ GammaDrawOf(t)

\* The for loop goes on to the next packet once the while loop has ended
NextPacket ==
    /\ source = "create_packet_times_uniform_energy"
    /\ sampler.pc = "loop"
    /\ sampler.i < sampler.no_of_packets
    /\ IF sampler.strategy = "radioactive"
       THEN ~Rejected(sampler.decay_times[sampler.i], sampler.decay_time_min,
                      sampler.decay_time_max)
       ELSE ~Rejected(sampler.decay_times[sampler.i], bucket_min(sampler.i),
                      bucket_max(sampler.i))
    /\ sampler' = [sampler EXCEPT !.i = @ + 1]
    /\ UNCHANGED <<source, pc, taus, parents, average_positron_energies,
                   energy_df_rows, energy_plot_positron_rows, decays_per_isotope,
                   block, packet_index, arrays, drawn, ledger_before, generated,
                   base_seed,
                   isotope_decay_df, positron_fractions, runs, nus>>

\* return decay_times
ReturnTimes ==
    /\ source = "create_packet_times_uniform_energy"
    /\ sampler.pc = "loop"
    /\ sampler.i = sampler.no_of_packets
    /\ sampler' = [sampler EXCEPT !.pc = "done"]
    /\ UNCHANGED <<source, pc, taus, parents, average_positron_energies,
                   energy_df_rows, energy_plot_positron_rows, decays_per_isotope,
                   block, packet_index, arrays, drawn, ledger_before, generated,
                   base_seed,
                   isotope_decay_df, positron_fractions, runs, nus>>

NextTimes == RadioactiveDraw \/ GammaDraw \/ NextPacket \/ ReturnTimes

SpecTimes == InitTimes /\ [][NextTimes]_vars

\* The loops run on, and a draw that has positive probability at every
\* iteration is made in the end
FairSpecTimes ==
    /\ SpecTimes
    /\ WF_vars(NextTimes)
    /\ SF_vars(RadioactiveAccept)
    /\ SF_vars(GammaAccept)

-----------------------------------------------------------------------------
(* GammaRayPacketSource.create_packets from a known state of np.random's    *)
(* global generator                                                          *)

\* The global generator: the stream of the linear congruential generator
\* x -> 5x + 1 mod 8, started at the state the call finds
GlobalSpace == 8
NextGlobal(x) == (5 * x + 1) % GlobalSpace

RECURSIVE GlobalStream(_, _)
GlobalStream(state, k) ==
    IF k = 0 THEN state ELSE NextGlobal(GlobalStream(state, k - 1))

\* np.random.random() as z of create_packet_radii, as a percentage, and
\* get_random_unit_vector(), each from one value of the stream
random_z(v) == (v * ZDen) \div GlobalSpace
random_percent(v) == (v * 100) \div GlobalSpace
random_unit_vector(v) == IF v < GlobalSpace \div 2 THEN -1 ELSE 1

\* Packet j of n: the draws in the order create_packets makes them, the radii
\* (L564), the unit vectors of the locations (L781), the directions (L785),
\* the formation draws (L601) and the three-photon draws (L606)
SeededPacket(sampled_packets_df, n, state, j) ==
    GammaPacket(sampled_packets_df[j],
                random_z(GlobalStream(state, j)),
                random_unit_vector(GlobalStream(state, n + j)),
                random_unit_vector(GlobalStream(state, 2 * n + j)),
                gamma_create_packet_nus(
                    sampled_packets_df[j].radiation_energy_keV, positronium_fraction,
                    random_percent(GlobalStream(state, 3 * n + j)),
                    random_percent(GlobalStream(state, 4 * n + j)),
                    CHOOSE cont \in PositroniumSampler : TRUE))

InitSeeded ==
    /\ source = "seeded"
    /\ taus = [Ni56 |-> 3, Co56 |-> 5]
    /\ parents = [Co56 |-> "Ni56"]
    /\ average_positron_energies = <<>>
    /\ base_seed \in 0 .. SeedSpace - 1
    /\ isotope_decay_df \in IsotopeDecayTables
    /\ Constructed
    /\ nus = <<>>
    /\ sampler = <<>>

\* A first and a second call of create_packets, each finding the global
\* generator in the state it is given
SeededCall(n, state) ==
    /\ source = "seeded"
    /\ Len(runs) < 2
    /\ LET sampled_packets_df == sample(sampled_packets_df_gamma, n, base_seed)
           packets == [j \in Slots(n) |-> SeededPacket(sampled_packets_df, n, state, j)]
           collection ==
               [locations |-> Column(packets, "location"),
                directions |-> Column(packets, "direction"),
                packet_energies_rf |-> Column(packets, "packet_energy_rf"),
                packet_energies_cmf |-> Column(packets, "packet_energy_cmf"),
                nus_rf |-> Column(packets, "nu_rf"),
                nus_cmf |-> Column(packets, "nu_cmf"),
                statuses |-> [j \in Slots(n) |-> 3],
                shells |-> Column(packets, "shell"),
                times |-> Column(packets, "time"),
                time_index |-> Column(packets, "time_index")]
           fractions ==
               gamma_calculate_positron_fraction(isotope_decay_df,
                                                 IsotopesOf(sampled_packets_df), n)
       IN  /\ ~PositronKeyError(isotope_decay_df, IsotopesOf(sampled_packets_df))
           /\ arrays' = collection
           /\ drawn' = [j \in Slots(n) |-> Sampled(packets[j])]
           /\ positron_fractions' = fractions
           /\ runs' = Append(runs, [global |-> state, number_of_packets |-> n,
                                    isotopes |-> Column(packets, "isotope"),
                                    collection |-> collection,
                                    fractions |-> fractions])
    /\ pc' = "returned"
    /\ UNCHANGED <<source, taus, parents, average_positron_energies, energy_df_rows,
                   energy_plot_positron_rows, decays_per_isotope, block, packet_index,
                   ledger_before, generated, base_seed, isotope_decay_df, nus,
                   sampler>>

NextSeeded == \E n \in 0 .. MaxPackets, state \in 0 .. GlobalSpace - 1 : SeededCall(n, state)

SpecSeeded == InitSeeded /\ [][NextSeeded]_vars

-----------------------------------------------------------------------------
(* Properties *)

Radioactive == source = "radioactive"
Returned == pc = "returned"
Packets == DOMAIN arrays.times
start_time == At(times, 0)

\* The positron energy one packet of an isotope deposits
PositronEnergy(isotope) ==
    RMul(calculate_positron_fraction(average_positron_energies[isotope],
                                     gamma_ray_lines[isotope][1],
                                     gamma_ray_lines[isotope][2]),
         packet_energy)

\* The time step holding the decay time sampled for the packet of slot j
TimeIndexOf(j) ==
    IF source = "gamma" THEN arrays.time_index[j] ELSE get_index(drawn[j].time, times)

\* C1: when the fixed-count create_packets has returned, the decay time stored
\* for every packet lies in [times[0], times[-1]], whatever was drawn.
C1_DecayTimeInWindow ==
    (Radioactive /\ Returned) =>
        \A j \in Packets :
            start_time <= arrays.times[j] /\ arrays.times[j] <= Last(times)

\* A returned collection holds a packet sampled before times[0] and moved to it.
C1_Witness ==
    /\ Radioactive /\ Returned
    /\ \E j \in Packets : drawn[j].time < start_time /\ arrays.times[j] = start_time

\* C2 as claimed: the stored frequencies are the stored packet energies over h.
C2_FrequencyFromPacketEnergy ==
    Returned =>
        \A j \in Packets :
            /\ arrays.nus_cmf[j] = RDiv(arrays.packet_energies_cmf[j], FromInt(H_CGS_KEV))
            /\ arrays.nus_rf[j] = RDiv(arrays.packet_energies_rf[j], FromInt(H_CGS_KEV))

\* C2 amended: in the collection either create_packets returns, nu_cmf is the
\* photon energy create_packet_nus gave the packet (its line, or a positronium
\* sample for a 511 keV line) over h, and nu_rf and energy_rf are nu_cmf and
\* energy_cmf over the packet's Doppler factor.
C2_FrequencyFromPhotonEnergy ==
    Returned =>
        \A j \in Packets :
            LET doppler_factor ==
                    doppler_factor_3d(arrays.directions[j], arrays.locations[j],
                                      arrays.times[j])
            IN  /\ drawn[j].nu_energy \in
                      {drawn[j].line} \cup
                      (IF drawn[j].line = 511 THEN PositroniumSampler ELSE {})
                /\ RMul(arrays.nus_cmf[j], FromInt(H_CGS_KEV)) = FromInt(drawn[j].nu_energy)
                /\ arrays.nus_rf[j] = RDiv(arrays.nus_cmf[j], doppler_factor)
                /\ arrays.packet_energies_rf[j] =
                      RDiv(arrays.packet_energies_cmf[j], doppler_factor)

\* A returned collection holds a packet whose frequency is not its energy over h.
C2_Witness ==
    /\ Returned
    /\ \E j \in Packets :
          /\ drawn[j].nu_energy = 340
          /\ arrays.nus_cmf[j] # RDiv(arrays.packet_energies_cmf[j], FromInt(H_CGS_KEV))

\* C3 as claimed: for a 511 keV line with positronium formed, either
\* create_packet_nus stores the positronium sample when the second draw is
\* above PARA_TO_ORTHO_RATIO and keeps 511 keV when it is below.
C3_OrthoBranchIsContinuum ==
    (nus.strategy # "none" /\ nus.line = 511 /\ nus.formation < nus.fraction) =>
        /\ nus.u > PARA_TO_ORTHO_RATIO => nus.energy = nus.cont
        /\ nus.u < PARA_TO_ORTHO_RATIO => nus.energy = 511

\* C4: either create_packet_nus leaves the energy at the line energy when the
\* line is not 511 keV or positronium does not form; with positronium_fraction
\* 0 that is every packet, and the positronium sample is never stored.
C4_LineEnergyKept ==
    nus.strategy # "none" =>
        /\ (nus.line # 511 \/ ~(nus.formation < nus.fraction)) => nus.energy = nus.line
        /\ nus.fraction = 0 => (nus.energy = nus.line /\ nus.energy # nus.cont)

\* A 511 keV packet of the weighted-draw source, positronium_fraction 0, the
\* formation draw 0 and the second draw in the three-photon branch.
C4_Witness ==
    /\ nus.strategy = "gamma" /\ nus.line = 511 /\ nus.fraction = 0
    /\ nus.formation = 0 /\ nus.u > PARA_TO_ORTHO_RATIO /\ nus.energy = 511

RECURSIVE DepositedUpTo(_, _, _)
DepositedUpTo(s, k, j) ==
    IF j < 0 THEN Zero
    ELSE RAdd(DepositedUpTo(s, k, j - 1),
              IF arrays.shells[j] = s /\ TimeIndexOf(j) = k
              THEN PositronEnergy(drawn[j].isotope) ELSE Zero)

LedgerGrewByPackets ==
    \A s \in Shells, k \in TimeSteps :
        energy_df_rows[s][k] =
            RAdd(ledger_before[s][k], DepositedUpTo(s, k, packet_index - 1))

\* C5: with positron fractions >= 0, no step of the fixed-count create_packets
\* lowers a cell of energy_df_rows, within a call or from call to call, and on
\* return cell (s, k) has grown by the sum of isotope_positron_fraction *
\* packet_energy over the packets of shell s sampled in time step k.
C5_LedgerOnlyGrows ==
    /\ [][Radioactive =>
            \A s \in Shells, k \in TimeSteps :
                RLe(energy_df_rows[s][k], energy_df_rows'[s][k])]_vars
    /\ []((Radioactive /\ Returned) => LedgerGrewByPackets)

\* A second call has returned: the ledger held deposits before it and holds
\* more after it.
C5_Witness ==
    /\ Radioactive /\ Returned
    /\ \E s \in Shells, k \in TimeSteps : RLt(Zero, ledger_before[s][k])
    /\ \E s \in Shells, k \in TimeSteps : RLt(ledger_before[s][k], energy_df_rows[s][k])

\* C6 as claimed: when the fixed-count create_packets has returned, row p of
\* energy_plot_positron_rows holds packet p: its index, its positron energy,
\* its initial radius and its decay time.
C6_OneRowPerPacket ==
    (Radioactive /\ Returned) =>
        \A p \in Packets :
            energy_plot_positron_rows[p] =
                <<p, PositronEnergy(drawn[p].isotope), drawn[p].radius, arrays.times[p]>>

\* C7 as claimed: every call of a decay-time sampler ends, by returning or by
\* an explicit failure.
C7_SamplerEnds == <>(sampler.pc \in {"done", "failed"})

\* C8 as claimed: when the fixed-count create_packets fails on a missing entry,
\* energy_df_rows is as it was before the call and no packet was generated.
C8_FailsBeforeSampling ==
    (Radioactive /\ pc = "failed") =>
        energy_df_rows = ledger_before /\ packet_index = 0

\* C9: for every packet of the fixed-count create_packets, a decay time
\* sampled before times[0] gives energy_cmf = packet_energy * t / times[0] and
\* the stored time times[0]; any other gives energy_cmf = packet_energy and the
\* sampled time; and 0 < energy_cmf <= packet_energy.
C9_EnergyFactor ==
    (Radioactive /\ Returned) =>
        \A j \in Packets :
            /\ drawn[j].time < start_time =>
                  /\ arrays.times[j] = start_time
                  /\ arrays.packet_energies_cmf[j] =
                        RMul(packet_energy, Rat(drawn[j].time, start_time))
            /\ drawn[j].time >= start_time =>
                  /\ arrays.times[j] = drawn[j].time
                  /\ arrays.packet_energies_cmf[j] = packet_energy
            /\ RLt(Zero, arrays.packet_energies_cmf[j])
            /\ RLe(arrays.packet_energies_cmf[j], packet_energy)

\* A returned collection holds a packet scaled down and one left whole.
C9_Witness ==
    /\ Radioactive /\ Returned
    /\ \E j \in Packets : RLt(arrays.packet_energies_cmf[j], packet_energy)
    /\ \E j \in Packets : arrays.packet_energies_cmf[j] = packet_energy

\* C10 as claimed: in the collection either create_packets returns, a packet's
\* location is its radius at time zero times effective_times[time_index] times
\* a unit vector.
C10_LocationFromEffectiveTime ==
    Returned =>
        \A j \in Packets :
            arrays.locations[j] =
                drawn[j].radius * At(effective_times, TimeIndexOf(j)) * drawn[j].unit

Gamma == source = "gamma"

\* The values GammaRayPacketSource.create_packet_times_uniform_energy can return
\* for a packet of an isotope pre-assigned the time step decay_time
gamma_create_packet_times_uniform_energy(isotope, decay_time) ==
    LET decay_time_min == At(times, decay_time)
        decay_time_max == IF decay_time_min = Last(times) THEN Last(effective_times)
                          ELSE At(times, decay_time + 1)
    IN  {t \in TimeDraws(taus[isotope], 0) :
            ~Rejected(t, decay_time_min, decay_time_max)}

\* C11 as claimed: in the collection the weighted-draw create_packets returns,
\* the decay time stored for a packet is a value the bucketed rejection sampler
\* produces for the packet's isotope and time step.
C11_StoredTimeFromBucketSampler ==
    (Gamma /\ Returned) =>
        \A j \in Packets :
            arrays.times[j] \in
                gamma_create_packet_times_uniform_energy(drawn[j].isotope,
                                                         arrays.time_index[j])

GammaSampler ==
    source = "create_packet_times_uniform_energy" /\ sampler.strategy = "gamma"

\* C12 as claimed: in the bucketed sampler every time of a packet the loop has
\* left lies in [times[i], times[i+1]) (to effective_times[-1] for the last
\* bucket), and a value in that interval, times[i] included, ends the loop.
C12_HalfOpenBucket ==
    GammaSampler =>
        /\ \A j \in Slots(sampler.i) :
              bucket_min(j) <= sampler.decay_times[j]
              /\ sampler.decay_times[j] < bucket_max(j)
        /\ (/\ sampler.i < sampler.no_of_packets
            /\ bucket_min(sampler.i) <= sampler.decay_times[sampler.i]
            /\ sampler.decay_times[sampler.i] < bucket_max(sampler.i))
           => ~Rejected(sampler.decay_times[sampler.i], bucket_min(sampler.i),
                        bucket_max(sampler.i))

\* C12 amended: every time of a packet the loop has left lies strictly inside
\* the bucket, times[i] < t < times[i+1] (to effective_times[-1] for the last
\* bucket), and the loop redraws exactly while the value is not strictly
\* inside: a draw equal to times[i] is redrawn.
C12_OpenBucket ==
    GammaSampler =>
        /\ \A j \in Slots(sampler.i) :
              bucket_min(j) < sampler.decay_times[j]
              /\ sampler.decay_times[j] < bucket_max(j)
        /\ sampler.i < sampler.no_of_packets =>
              (ENABLED GammaDraw <=>
                  ~(/\ bucket_min(sampler.i) < sampler.decay_times[sampler.i]
                    /\ sampler.decay_times[sampler.i] < bucket_max(sampler.i)))

\* The loop holds a draw equal to the lower bound of a bucket of positive
\* width, and a packet before it was returned strictly inside its bucket.
C12_Witness ==
    /\ GammaSampler
    /\ sampler.i = 1 /\ sampler.no_of_packets = 2
    /\ sampler.decay_times[1] = bucket_min(1)
    /\ bucket_min(1) < bucket_max(1)
    /\ ENABLED GammaDraw

\* The shells of slots 0..j as a count of the slots holding shell s
ShellCount(s) == Cardinality({j \in Packets : arrays.shells[j] = s})

\* C13: in a returned collection every shell index is a shell of the model; in
\* the fixed-count strategy the slots follow the shells in order and shell s
\* holds as many packets as decays_per_isotope counts for it; in the
\* weighted-draw strategy the shell index is the shell_number of the sampled row.
C13_ShellIndex ==
    Returned =>
        /\ \A j \in Packets : arrays.shells[j] \in Shells
        /\ Radioactive =>
              /\ \A s \in Shells :
                    ShellCount(s) = decays_per_shell(decays_per_isotope)[s]
              /\ \A i, j \in Packets : i <= j => arrays.shells[i] <= arrays.shells[j]
        /\ Gamma =>
              \A j \in Packets :
                  arrays.shells[j] =
                      sample(sampled_packets_df_gamma, Cardinality(Packets),
                             base_seed)[j].shell_number

\* A returned fixed-count collection holds a packet of shell 0 and one of shell 1.
C13_Witness ==
    /\ Radioactive /\ Returned
    /\ \E i, j \in Packets : arrays.shells[i] = 0 /\ arrays.shells[j] = 1

\* C17 as claimed: in a returned collection the location of a packet is its
\* sampled radius scaled by the time its Doppler factor is computed with (the
\* stored decay time), and energy_rf and nu_rf are energy_cmf and nu_cmf over
\* that one Doppler factor of the stored direction.
C17_DopplerTimeIsPlacementTime ==
    Returned =>
        \A j \in Packets :
            LET doppler_factor ==
                    doppler_factor_3d(arrays.directions[j], arrays.locations[j],
                                      arrays.times[j])
            IN  /\ arrays.locations[j] =
                      scale_radius(drawn[j].radius, arrays.times[j], drawn[j].unit)
                /\ arrays.packet_energies_rf[j] =
                      rest_frame(arrays.packet_energies_cmf[j], doppler_factor)
                /\ arrays.nus_rf[j] = rest_frame(arrays.nus_cmf[j], doppler_factor)

\* The packets counted by the blocks before block b
RECURSIVE CountBefore(_)
CountBefore(b) ==
    IF b = 0 THEN 0
    ELSE decays_per_isotope[(b - 1) \div NumIsotopes][(b - 1) % NumIsotopes]
         + CountBefore(b - 1)

\* The block whose count covers slot j
OwnerBlock(j) ==
    CHOOSE b \in 0 .. NumBlocks - 1 : CountBefore(b) <= j /\ j < CountBefore(b + 1)

\* The fields of slot j across the arrays of the collection
SlotFields(a, j) ==
    <<a.locations[j], a.directions[j], a.packet_energies_rf[j],
      a.packet_energies_cmf[j], a.nus_rf[j], a.nus_cmf[j], a.shells[j], a.times[j]>>

\* The fields of the packet sampled for slot j, as its block computes them
PacketFields(j) ==
    LET b == OwnerBlock(j)
        p == RadioactivePacket(b \div NumIsotopes, Isotopes[(b % NumIsotopes) + 1],
                               drawn[j], drawn[j].time)
    IN  <<p.location, p.direction, p.packet_energy_rf, p.packet_energy_cmf,
          p.nu_rf, p.nu_cmf, p.shell, p.time>>

AlignedUpToBlock ==
    /\ packet_index = CountBefore(block)
    /\ \A j \in Packets :
          IF j < packet_index
          THEN /\ drawn[j].isotope = Isotopes[(OwnerBlock(j) % NumIsotopes) + 1]
               /\ SlotFields(arrays, j) = PacketFields(j)
          ELSE /\ drawn[j] = NoDraw
               /\ SlotFields(arrays, j) = SlotFields(ZeroArrays(Cardinality(Packets)), j)
    /\ Returned => packet_index = number_of_packets(decays_per_isotope)

\* C16: in the fixed-count create_packets, after every block packet_index is
\* the sum of the counts of the blocks processed, the slots below it hold, all
\* fields together, the packet sampled for that slot by the block whose count
\* covers it, the slots from it on are untouched, and on return packet_index
\* is number_of_packets; a block writes only the slots [packet_index - count,
\* packet_index), and a block of count zero changes no array, nor the counter,
\* nor the ledger.
C16_ArraysAligned ==
    /\ [](Radioactive => AlignedUpToBlock)
    /\ [][(Radioactive /\ pc = "running" /\ block' = block + 1) =>
            /\ packet_index' = packet_index + isotope_packet_count
            /\ \A j \in Packets :
                  (j < packet_index \/ j >= packet_index') =>
                      SlotFields(arrays', j) = SlotFields(arrays, j)
            /\ isotope_packet_count = 0 =>
                  /\ arrays' = arrays
                  /\ packet_index' = packet_index
                  /\ energy_df_rows' = energy_df_rows
                  /\ energy_plot_positron_rows' = energy_plot_positron_rows]_vars

\* A returned collection of two packets from two blocks, with blocks of count
\* zero before and between them.
C16_Witness ==
    /\ Radioactive /\ Returned
    /\ packet_index = 2
    /\ decays_per_isotope[0][0] = 0 /\ decays_per_isotope[0][1] = 1
    /\ decays_per_isotope[1][0] = 0 /\ decays_per_isotope[1][1] = 1

\* The energy of the rows of one isotope, shell 0 and one radiation channel
RECURSIVE ChannelEnergy(_, _, _, _)
ChannelEnergy(df, isotope, radiation, i) ==
    IF i = 0 THEN 0
    ELSE (IF /\ df[i].isotope = isotope
             /\ df[i].shell_number = 0
             /\ df[i].radiation = radiation
          THEN df[i].energy_per_channel_keV ELSE 0)
         + ChannelEnergy(df, isotope, radiation, i - 1)

HasChannel(df, isotope, radiation) ==
    \E i \in DOMAIN df :
        /\ df[i].isotope = isotope
        /\ df[i].shell_number = 0
        /\ df[i].radiation = radiation

\* The fractions of the returned call are those of the rows of shell 0
FractionsOfShell0 ==
    /\ DOMAIN positron_fractions = Packets
    /\ \A j \in Packets :
          positron_fractions[j] =
              IF HasChannel(isotope_decay_df, drawn[j].isotope, "bp")
              THEN Rat(ChannelEnergy(isotope_decay_df, drawn[j].isotope, "bp",
                                     Len(isotope_decay_df)),
                       ChannelEnergy(isotope_decay_df, drawn[j].isotope, "g",
                                     Len(isotope_decay_df)))
              ELSE Zero

====
